---- MODULE Spec2Model ----
(***************************************************************************)
(* Model of the reddit-hole video pipeline: main() in src/main.py, the     *)
(* thread and comment selection of src/utils/reddit.py, the composer of    *)
(* src/utils/videomaker.py and the caption formatting of                   *)
(* src/utils/captions.py.                                                  *)
(*                                                                         *)
(* Time is counted in units of 1/Scale second, so that a duration can have *)
(* a fractional part; lengths handed to the composer are whole seconds.    *)
(* Text is a sequence of word lengths (sanitized text is words separated   *)
(* by single blanks) where only its length and word boundaries matter, and *)
(* a sequence of characters where its content matters.                     *)
(***************************************************************************)
EXTENDS Integers, Sequences, FiniteSets, TLC

---------------------------------------------------------------------------
(* Bounds of the model *)

\* time units per second
Scale == 2
\* longest audio file a TTS call produces, in units
MaxDur == 3
\* largest configured pause, in units
MaxPause == 1
\* largest configured comments-mode target duration, in units
MaxTarget == 7
\* longest background asset, in units
MaxAsset == 12
\* the longest of the short texts given to sanitize_text
MaxText == 3

---------------------------------------------------------------------------
(* Program constants and configured values *)

\* main.py: a sanitized body of at least this many characters is narrated
MinBodyLength == 4000
\* helpers.py split_text: default max_length
max_length == 2000
\* the configured topn_comments that get_comments reads (reddit.py line 84)
topn_comments == 3

---------------------------------------------------------------------------
(* Generic helpers *)

RECURSIVE SumSeq(_)
SumSeq(s) == IF s = <<>> THEN 0 ELSE Head(s) + SumSeq(Tail(s))

SetMax(S) == CHOOSE x \in S : \A y \in S : y <= x
SetMin(S) == CHOOSE x \in S : \A y \in S : x <= y

\* math.ceil of a duration held in units, in whole seconds
FloorSeconds(u) == u \div Scale
CeilSeconds(u) == (u + Scale - 1) \div Scale

\* int() of a difference held in units: truncation toward zero, whole seconds
CeilInt(u) == IF u >= 0 THEN (u + Scale - 1) \div Scale ELSE -((-u) \div Scale)
TruncInt(u) == IF u >= 0 THEN u \div Scale ELSE -((-u) \div Scale)

---------------------------------------------------------------------------
(* Text as word lengths: len(), split_text *)

\* len(text) of words joined by single blanks
RECURSIVE TextLen(_)
TextLen(words) ==
    IF words = <<>> THEN 0
    ELSE IF Len(words) = 1 THEN words[1]
    ELSE words[1] + 1 + TextLen(Tail(words))

\* offset of the first character of word i (0-based offsets)
WordStart(words, i) == TextLen(SubSeq(words, 1, i - 1)) + (IF i > 1 THEN 1 ELSE 0)
\* offset just past the last character of word i: a blank or the end of text
WordEnd(words, i) == WordStart(words, i) + words[i]
WordEnds(words) == { WordEnd(words, i) : i \in 1..Len(words) }

\* re.findall(r'(.{1,max})(?:\s|$)', text): scanning from offset p, the
\* greedy match ends at the furthest blank-or-end within max characters; with
\* none in reach the scan moves on one character at a time, i.e. to the first
\* offset from which the end of the current word is in reach.
RECURSIVE FindAll(_, _, _)
FindAll(words, max, p) ==
    IF p >= TextLen(words) THEN <<>>
    ELSE LET reach == { e \in WordEnds(words) : p < e /\ e <= p + max }
             ahead == { e \in WordEnds(words) : p < e }
         IN  IF reach = {}
             THEN FindAll(words, max, SetMin(ahead) - max)
             ELSE <<[start |-> p, end |-> SetMax(reach)]>>
                    \o FindAll(words, max, SetMax(reach) + 1)

split_text(words, max) == FindAll(words, max, 0)

---------------------------------------------------------------------------
(* Caption text as characters: str.strip *)

IsSpace(c) == c = " "

RECURSIVE LStrip(_)
LStrip(t) == IF t # <<>> /\ IsSpace(Head(t)) THEN LStrip(Tail(t)) ELSE t

RECURSIVE RStrip(_)
RStrip(t) ==
    IF t # <<>> /\ IsSpace(t[Len(t)]) THEN RStrip(SubSeq(t, 1, Len(t) - 1)) ELSE t

Strip(t) == RStrip(LStrip(t))

\* captions.py format_captions_whisper: one caption per segment, in order,
\* the text stripped
RECURSIVE format_captions_whisper(_)
format_captions_whisper(segments) ==
    IF segments = <<>> THEN <<>>
    ELSE <<[start |-> Head(segments).start,
            end   |-> Head(segments).end,
            text  |-> Strip(Head(segments).text)]>>
           \o format_captions_whisper(Tail(segments))

\* the transcripts the speech recogniser may return for one audio file, in
\* units: none, one fragment, adjacent fragments, fragments with silence
\* before and between them
Transcripts ==
    { <<>>,
      <<[start |-> 0, end |-> 2, text |-> <<" ", "h", "i">>]>>,
      <<[start |-> 0, end |-> 1, text |-> <<"b", "y", "e", " ">>],
        [start |-> 1, end |-> 3, text |-> <<"o", "k">>]>>,
      <<[start |-> 1, end |-> 2, text |-> <<" ", "a", " ">>],
        [start |-> 3, end |-> 4, text |-> <<"b">>]>> }

---------------------------------------------------------------------------
(* Text as characters: sanitize_text. A text is a sequence of characters; *)
(* the one emoji of the alphabet is written "U+1F600".                     *)

Letters ==
    {"a", "b", "c", "d", "e", "f", "g", "h", "i", "j", "k", "l", "m", "n",
     "o", "p", "q", "r", "s", "t", "u", "v", "w", "x", "y", "z", "M", "F"}
Digits == {"0", "1", "2", "3", "4", "5", "6", "7", "8", "9"}

\* helpers.py line 77: [MFmf]
Gender == {"M", "F", "m", "f"}
\* helpers.py line 84: [a-zA-Z0-9\.\/\?\:@\-_=#]
UrlHead == Letters \cup Digits \cup {".", "/", "?", ":", "@", "-", "_", "=", "#"}
\* helpers.py line 84: [a-zA-Z0-9\.\&\/\?\:@\-_=#]
UrlTail == UrlHead \cup {"&"}
\* helpers.py line 87: ['|<right quote>]
Quotes == {"'", "|"}
\* helpers.py line 87: the character class, without its members outside
\* ASCII (the dash and the typographic quotes)
Unwanted ==
    {"^", "_", "~", "@", "!", "&", ";", "#", ":", "-", "%", "\"", "*", "/",
     "{", "}", "[", "]", "(", ")", "\\", "|", "<", ">", "=", "+"}

GrinningFace == "U+1F600"
\* emoji: the name of the emoji between the delimiters
EmojiName(c) == <<"g", "r", "i", "n", "n", "i", "n", "g", "_", "f", "a", "c", "e">>

Drop(t, n) == SubSeq(t, n + 1, Len(t))

\* the number of leading characters of t that are in class
RECURSIVE RunLen(_, _)
RunLen(t, class) ==
    IF t # <<>> /\ Head(t) \in class THEN 1 + RunLen(Tail(t), class) ELSE 0

\* t contains pat as a substring
Contains(t, pat) ==
    \E i \in 1..(Len(t) - Len(pat) + 1) : SubSeq(t, i, i + Len(pat) - 1) = pat

\* str.replace(old, new) for a single character old
RECURSIVE Replace(_, _, _)
Replace(t, old, new) ==
    IF t = <<>> THEN <<>>
    ELSE (IF Head(t) = old THEN new ELSE <<Head(t)>>) \o Replace(Tail(t), old, new)

\* ' '.join(text.split()): runs of whitespace become one blank, none is
\* left at either end
RECURSIVE Collapse(_)
Collapse(t) ==
    IF t = <<>> THEN <<>>
    ELSE IF IsSpace(Head(t))
         THEN <<" ">> \o Collapse(LStrip(t))
         ELSE <<Head(t)>> \o Collapse(Tail(t))

JoinSplit(t) == Collapse(Strip(t))

\* Markdown that the texts of the alphabet can hold: a list marker followed
\* by a blank, or an indented code block
Markup(t) ==
    LET s == LStrip(t)
        n == RunLen(s, Digits)
    IN  /\ s # <<>>
        /\ \/ Len(t) - Len(s) >= 4
           \/ Len(s) >= 2 /\ s[1] \in {"+", "-", "*"} /\ s[2] = " "
           \/ n >= 1 /\ Len(s) >= n + 2 /\ s[n + 1] = "." /\ s[n + 2] = " "

\* helpers.py lines 71-75: markdown() of a text without markup is one
\* paragraph, and the text nodes of its HTML are the text itself without
\* the whitespace around it (an escaped & is unescaped by the parser)
PlainText(t) == Strip(t)

\* helpers.py line 77: \(\d+\s?[MFmf]\)|\d+\s?[MFmf] at the head of t.
\* \d+ takes the whole run of digits: after fewer digits the next character
\* is a digit, which neither \s? nor [MFmf] accepts.
AgeTail(t) ==
    LET n == RunLen(t, Digits)
    IN  IF n = 0 THEN 0
        ELSE IF Len(t) >= n + 1 /\ t[n + 1] \in Gender THEN n + 1
        ELSE IF Len(t) >= n + 2 /\ IsSpace(t[n + 1]) /\ t[n + 2] \in Gender
             THEN n + 2
        ELSE 0
AgeMatch(t) ==
    IF Head(t) = "("
    THEN LET m == AgeTail(Tail(t))
         IN  IF m > 0 /\ Len(t) >= m + 2 /\ t[m + 2] = ")" THEN m + 2 ELSE 0
    ELSE AgeTail(t)

\* helpers.py line 84 at the head of t. Every character of the optional
\* scheme is in the first class, so the scheme adds no match. The first
\* class needs one character at least, then a dot and two letters that
\* follow it; the last class then takes all that it can.
UrlMatch(t) ==
    LET a == RunLen(t, UrlHead)
    IN  IF \E j \in 2..a : /\ t[j] = "."
                           /\ Len(t) >= j + 2
                           /\ t[j + 1] \in Letters
                           /\ t[j + 2] \in Letters
        THEN RunLen(t, UrlTail)
        ELSE 0

\* helpers.py line 87 at the head of t: whitespace and a quote, a quote and
\* whitespace, or one character of the class
UnwantedMatch(t) ==
    IF Len(t) >= 2 /\ IsSpace(t[1]) /\ t[2] \in Quotes THEN 2
    ELSE IF Len(t) >= 2 /\ t[1] \in Quotes /\ IsSpace(t[2]) THEN 2
    ELSE IF t[1] \in Unwanted THEN 1
    ELSE 0

\* helpers.py line 91: demojize(result, delimiters=("", ""))
RECURSIVE demojize(_)
demojize(t) ==
    IF t = <<>> THEN <<>>
    ELSE (IF Head(t) = GrinningFace THEN EmojiName(Head(t)) ELSE <<Head(t)>>)
           \o demojize(Tail(t))

\* re.sub(pattern, repl, text): scanning from the left, a match at the
\* current position is replaced and the scan goes on behind it; otherwise
\* the character is kept
RECURSIVE AgeSub(_)
AgeSub(t) ==
    IF t = <<>> THEN <<>>
    ELSE IF AgeMatch(t) > 0 THEN AgeSub(Drop(t, AgeMatch(t)))
    ELSE <<Head(t)>> \o AgeSub(Tail(t))

RECURSIVE UrlSub(_)
UrlSub(t) ==
    IF t = <<>> THEN <<>>
    ELSE IF UrlMatch(t) > 0 THEN <<" ">> \o UrlSub(Drop(t, UrlMatch(t)))
    ELSE <<Head(t)>> \o UrlSub(Tail(t))

RECURSIVE UnwantedSub(_)
UnwantedSub(t) ==
    IF t = <<>> THEN <<>>
    ELSE IF UnwantedMatch(t) > 0
         THEN <<" ">> \o UnwantedSub(Drop(t, UnwantedMatch(t)))
    ELSE <<Head(t)>> \o UnwantedSub(Tail(t))

\* helpers.py lines 56-94, step by step
RemoveAge(t)      == JoinSplit(AgeSub(PlainText(t)))
SlashToOr(t)      == Replace(t, "/", <<" ", "o", "r">>)
RemoveUrls(t)     == UrlSub(t)
RemoveUnwanted(t) == UnwantedSub(t)
PlusAnd(t)        == Replace(Replace(t, "+", <<"p", "l", "u", "s">>),
                             "&", <<"a", "n", "d">>)

sanitize_text(t) ==
    JoinSplit(demojize(PlusAnd(RemoveUnwanted(RemoveUrls(SlashToOr(RemoveAge(t)))))))

\* the texts of at most n characters over an alphabet
RECURSIVE Texts(_, _)
Texts(alphabet, n) ==
    IF n = 0 THEN {<<>>}
    ELSE LET shorter == Texts(alphabet, n - 1)
         IN  shorter \cup { Append(t, c) : t \in shorter, c \in alphabet }

\* the alphabet of the short texts
Chars == {"a", "f", "1", " ", ".", "/", "+", "&", "'", GrinningFace}

\* https://a.b/c
Url == <<"h", "t", "t", "p", "s", ":", "/", "/", "a", ".", "b", "/", "c">>

\* texts with a URL in them, and age and gender tags in their two forms
LongTexts ==
    { Url,
      <<"s", "e", "e", " ">> \o Url,
      Url \o <<" ", "o", "k">>,
      <<"(">> \o Url \o <<")">>,
      <<"1", " ", "1", "f", "f">>,
      <<"m", "e", " ", "(", "2", "5", "F", ")">>,
      <<"m", "e", " ", "(", "2", "5", " ", "m", ")", " ", "+", " ", "1", "9", "f" >> }

\* the texts sanitize_text is applied to
Inputs == { t \in Texts(Chars, MaxText) \cup LongTexts : ~Markup(t) }

---------------------------------------------------------------------------
(* The candidate pool: what subreddit.top('week') returns, in API order.   *)
(* body is the sanitized selftext as word lengths; comments are the        *)
(* top-level comments in thread order.                                     *)

Comment(more, removed, stickied, sanitized, in_range) ==
    [more |-> more, removed |-> removed, stickied |-> stickied,
     sanitized |-> sanitized, in_range |-> in_range]

Plain   == Comment(FALSE, FALSE, FALSE, TRUE, TRUE)
More    == Comment(TRUE, FALSE, FALSE, FALSE, FALSE)
Removed == Comment(FALSE, TRUE, FALSE, TRUE, FALSE)
Sticky  == Comment(FALSE, FALSE, TRUE, TRUE, TRUE)
Emoji   == Comment(FALSE, FALSE, FALSE, FALSE, TRUE)
Short   == Comment(FALSE, FALSE, FALSE, TRUE, FALSE)

Pool ==
    << [id |-> "a", score |-> 20, body |-> <<3000>>,
        comments |-> <<Plain, Short, Emoji, Plain>>],
       [id |-> "b", score |-> 30, body |-> <<1999, 2000>>,
        comments |-> <<Sticky, Plain, Removed, Plain, More, Plain, Plain>>],
       [id |-> "c", score |-> 10, body |-> <<2500, 1600>>,
        comments |-> <<Removed, Sticky>>] >>

NoThread == [id |-> "none", score |-> 0, body |-> <<>>, comments |-> <<>>]

\* a sort that puts the lowest score first
RECURSIVE InsertByScoreAscending(_, _)
InsertByScoreAscending(sorted, t) ==
    IF sorted = <<>> THEN <<t>>
    ELSE IF Head(sorted).score <= t.score
         THEN <<Head(sorted)>> \o InsertByScoreAscending(Tail(sorted), t)
         ELSE <<t>> \o sorted

\* sorted(threads, key=score, reverse=True): stable, descending
RECURSIVE InsertByScore(_, _)
InsertByScore(sorted, t) ==
    IF sorted = <<>> THEN <<t>>
    ELSE IF Head(sorted).score >= t.score
         THEN <<Head(sorted)>> \o InsertByScore(Tail(sorted), t)
         ELSE <<t>> \o sorted

RECURSIVE SortByScore(_)
SortByScore(threads) ==
    IF threads = <<>> THEN <<>>
    ELSE InsertByScore(SortByScore(SubSeq(threads, 1, Len(threads) - 1)),
                       threads[Len(threads)])

---------------------------------------------------------------------------
(* The seen store: the documents of ./assets/database.json, in insertion   *)
(* order, each reduced to its id.                                          *)

\* db.search(Query().id == id) is non-empty
InDb(d, id) == \E k \in 1..Len(d) : d[k] = id

\* a selection that never consults the store: every thread passes as unseen
UnseenAlways(d, id) == TRUE
\* reddit.py line 63: not db.search(Query().id == str(thread.id))
Unseen(d, id) == ~InDb(d, id)

\* reddit.py lines 59-69: the first thread of the sorted list not in the db
RECURSIVE FirstUnseen(_, _)
FirstUnseen(sorted, d) ==
    IF sorted = <<>> THEN NoThread
    ELSE IF Unseen(d, Head(sorted).id) THEN Head(sorted)
    ELSE FirstUnseen(Tail(sorted), d)

get_thread(d) == FirstUnseen(SortByScore(Pool), d)

\* reddit.py lines 88-99: the indices (into thread.comments) of the comments
\* get_comments keeps, at most topn of them
RECURSIVE SelectComments(_, _, _)
SelectComments(cs, k, acc) ==
    IF k > Len(cs) \/ Len(acc) >= topn_comments THEN acc
    ELSE IF cs[k].more \/ cs[k].removed THEN SelectComments(cs, k + 1, acc)
    ELSE IF ~cs[k].stickied /\ cs[k].sanitized /\ cs[k].in_range
         THEN SelectComments(cs, k + 1, Append(acc, k))
    ELSE SelectComments(cs, k + 1, acc)

get_comments(t) == SelectComments(t.comments, 1, <<>>)

---------------------------------------------------------------------------
(* State *)

VARIABLES
    config,          \* ./assets/config.toml as load_config() returns it
    db,              \* the seen store, ids in insertion order
    temp_dirs,       \* ids t for which ./assets/temp/<t> exists
    results,         \* ids of the threads whose video file has been written
    pc,              \* position of the current run of main()
    failure,         \* the stage whose failure ended the run, or "none"
    db_at_start,     \* the seen store when the current run started
    my_config,       \* main: my_config, the configuration main loaded
    storymode,       \* main: storymode, read once from my_config
    thread,          \* main: thread
    title_mp3,       \* duration of mp3/title.mp3, 0 while not written
    chunks,          \* main: thread_body_chunks, as [start, end] offsets
    body_audio_paths,\* main: body_audio_paths, as chunk indices
    body_mp3,        \* durations of the mp3/body_<i>.mp3 written so far
    comments,        \* main: comments, as indices into thread.comments
    comment_mp3,     \* durations of the mp3/<idx>.mp3 written so far
    total_video_duration,   \* main: total_video_duration, in units
    current_video_duration, \* main: current_video_duration, in units
    idx,             \* main: position of the acceptance loop (0-based)
    comments_audio_path,       \* main: accepted raw audio paths, as idx
    comments_audio_clean_path, \* main: accepted clean audio paths, as idx
    comments_image_path,       \* main: accepted image paths, as idx
    clean_mp3,       \* durations of the mp3_clean files: title, then the rest
    length,          \* make_final_video: length, whole seconds, -1 before
    bg,              \* prepare_background: video_duration, length, start
    audio_clips,     \* make_final_video: audio_clips, as durations
    segments_log,    \* the transcripts returned so far, one per body file
    all_captions,    \* make_final_video: all_captions
    total_duration,  \* make_final_video: total_duration
    final_video,     \* make_final_video: final_video, "unbound" before
    mfv_storymode,   \* make_final_video: storymode, read from the file again
    text_concat,     \* make_final_video: the caption clips as placed in the
                     \* composite: start, duration, text
    image_clips,     \* make_final_video: image_clips: image, duration
    san_text,        \* sanitize_text: the text it is first given
    san_results      \* what sanitize_text returned for san_text, then for
                     \* its own result

persistent == <<config, db, temp_dirs, results>>
run_ctl    == <<pc, failure, db_at_start, my_config, storymode, thread>>
story_vars == <<chunks, body_audio_paths, body_mp3>>
comm_vars  == <<comments, comment_mp3, current_video_duration, idx,
                comments_audio_path, comments_audio_clean_path,
                comments_image_path>>
audio_vars == <<title_mp3, total_video_duration, clean_mp3, length>>
mfv_vars   == <<bg, audio_clips, segments_log, all_captions, total_duration,
                final_video, mfv_storymode, text_concat, image_clips>>

san_vars   == <<san_text, san_results>>
main_vars  == <<persistent, run_ctl, story_vars, comm_vars, audio_vars, mfv_vars>>

vars == <<main_vars, san_vars>>

Durations == 1..MaxDur
Pauses    == 0..MaxPause
Targets   == 1..MaxTarget
Assets    == 0..MaxAsset

\* the configurations of ./assets/config.toml
Configs ==
    [storymode : BOOLEAN, pause : Pauses, total_video_duration : Targets]

\* my_config before main has loaded it
NoConfig == [storymode |-> FALSE, pause |-> 0, total_video_duration |-> 0]

NoBg == [video_duration |-> 0, length |-> 0, random_start |-> -1, raised |-> FALSE]

Terminal == {"exit_no_thread", "exit_skipped", "done", "crashed"}

\* the locals of a run before it has assigned them
FreshLocals ==
    /\ failure = "none"
    /\ my_config = NoConfig
    /\ storymode = FALSE
    /\ thread = NoThread
    /\ title_mp3 = 0
    /\ chunks = <<>>
    /\ body_audio_paths = <<>>
    /\ body_mp3 = <<>>
    /\ comments = <<>>
    /\ comment_mp3 = <<>>
    /\ total_video_duration = 0
    /\ current_video_duration = 0
    /\ idx = 0
    /\ comments_audio_path = <<>>
    /\ comments_audio_clean_path = <<>>
    /\ comments_image_path = <<>>
    /\ clean_mp3 = <<>>
    /\ length = -1
    /\ bg = NoBg
    /\ audio_clips = <<>>
    /\ segments_log = <<>>
    /\ all_captions = <<>>
    /\ total_duration = 0
    /\ final_video = "unbound"
    /\ mfv_storymode = FALSE
    /\ text_concat = <<>>
    /\ image_clips = <<>>

Init ==
    /\ config \in Configs
    /\ db = <<>>
    /\ temp_dirs = {}
    /\ results = {}
    /\ pc = "start"
    /\ db_at_start = <<>>
    /\ FreshLocals
    /\ san_text = <<>>
    /\ san_results = <<>>

\* a run whose error handling lets a failed transcription return normally
FailurePcSwallowed(stage) == IF stage = "transcription" THEN "returned" ELSE "crashed"
\* An uncaught exception, or sys.exit(-1) in create_tts, ends the run at once.
FailurePc(stage) == "crashed"

Fail(stage) ==
    /\ failure' = stage
    /\ pc' = FailurePc(stage)

---------------------------------------------------------------------------
(* main(): thread selection and title *)

\* main.py lines 27-44: load_config, login, get_thread
GetThread ==
    /\ pc = "start"
    /\ my_config' = config
    /\ storymode' = config.storymode
    /\ \/ /\ thread' = get_thread(db)
          /\ pc' = IF get_thread(db) = NoThread THEN "exit_no_thread" ELSE "thread"
          /\ UNCHANGED failure
       \/ /\ Fail("thread_fetch")
          /\ UNCHANGED thread
    /\ UNCHANGED <<persistent, db_at_start, story_vars, comm_vars, audio_vars,
                   mfv_vars>>
    /\ UNCHANGED san_vars

\* main.py lines 46-69: the temp directories, the title TTS, the title card
TitleTts ==
    /\ pc = "thread"
    /\ temp_dirs' = temp_dirs \cup {thread.id}
    /\ \/ /\ \E d \in Durations : title_mp3' = d
          /\ pc' = "title"
          /\ UNCHANGED failure
       \/ /\ Fail("tts")
          /\ UNCHANGED title_mp3
    /\ UNCHANGED <<config, db, results, db_at_start, my_config, storymode, thread,
                   story_vars, comm_vars, total_video_duration, clean_mp3,
                   length, mfv_vars>>
    /\ UNCHANGED san_vars

---------------------------------------------------------------------------
(* main(): story mode *)

\* a threshold taken from the chunk size instead of the narration minimum
TooShortForChunk(n) == n < max_length
\* main.py line 84
TooShort(n) == n < MinBodyLength
\* main.py line 77
LongEnough(n) == n >= MinBodyLength

\* main.py lines 72-79 and 84-89: sanitize the body, then split it or skip
\* the thread; a skip records the thread and exits
StoryBranch ==
    /\ pc = "title"
    /\ storymode
    /\ IF LongEnough(TextLen(thread.body))
       THEN /\ chunks' = split_text(thread.body, max_length)
            /\ pc' = IF split_text(thread.body, max_length) = <<>>
                     THEN "story_durations" ELSE "body_tts"
            /\ UNCHANGED db
       ELSE IF TooShort(TextLen(thread.body))
       THEN /\ db' = Append(db, thread.id)
            /\ pc' = "exit_skipped"
            /\ UNCHANGED chunks
       ELSE /\ pc' = "story_durations"
            /\ UNCHANGED <<db, chunks>>
    /\ UNCHANGED <<config, temp_dirs, results, failure, db_at_start, my_config, storymode,
                   thread, body_audio_paths, body_mp3, comm_vars, audio_vars,
                   mfv_vars>>
    /\ UNCHANGED san_vars

\* main.py lines 80-83: one pass of the loop over the chunks
TtsBodyChunk ==
    /\ pc = "body_tts"
    /\ body_audio_paths' = Append(body_audio_paths, Len(body_audio_paths))
    /\ \/ /\ \E d \in Durations : body_mp3' = Append(body_mp3, d)
          /\ pc' = IF Len(body_audio_paths) + 1 = Len(chunks)
                   THEN "story_durations" ELSE "body_tts"
          /\ UNCHANGED failure
       \/ /\ Fail("tts")
          /\ UNCHANGED body_mp3
    /\ UNCHANGED <<persistent, db_at_start, my_config, storymode, thread, chunks,
                   comm_vars, audio_vars, mfv_vars>>
    /\ UNCHANGED san_vars

\* main.py lines 91-101: title duration plus one pause plus every body file
StoryTotal(title, pause, bodies) == title + pause + SumSeq(bodies)

\* None, which get_length returns for a file it cannot read
NoneLength == 0 - 1

\* a get_length that reports an unreadable file as an empty one
ZeroOnError(d) == 0
\* helpers.py lines 134-137: the exception is printed and None returned
LengthOnError(d) == NoneLength

\* helpers.py lines 128-137: what get_length may return for a file of
\* duration d
get_length(d) == {d, LengthOnError(d)}

\* what get_length may return for each file of a list
Readings(ds) ==
    { r \in [1..Len(ds) -> UNION { get_length(ds[k]) : k \in 1..Len(ds) }] :
        \A k \in 1..Len(ds) : r[k] \in get_length(ds[k]) }

\* the stage recorded once a file could not be read
AfterReading(read, actual) == IF read = actual THEN failure ELSE "get_length"

\* main.py lines 91-101: a sum with None raises TypeError
StoryDurations ==
    /\ pc = "story_durations"
    /\ \E t \in get_length(title_mp3), bs \in Readings(body_mp3) :
         IF t = NoneLength \/ \E k \in 1..Len(bs) : bs[k] = NoneLength
         THEN /\ Fail("get_length")
              /\ UNCHANGED total_video_duration
         ELSE /\ total_video_duration' = StoryTotal(t, my_config.pause, bs)
              /\ pc' = "story_compose"
              /\ failure' = AfterReading(<<t>> \o bs, <<title_mp3>> \o body_mp3)
    /\ UNCHANGED <<persistent, db_at_start, my_config, storymode, thread, story_vars,
                   comm_vars, title_mp3, clean_mp3, length, mfv_vars>>
    /\ UNCHANGED san_vars

\* helpers.py add_pause: the clean copy is the file followed by the pause
add_pause(duration, pause) == duration + pause

\* main.py lines 103-123: pad the title, write the thumbnail, call the
\* composer with the total rounded up
StoryCompose ==
    /\ pc = "story_compose"
    /\ clean_mp3' = <<add_pause(title_mp3, my_config.pause)>>
    /\ length' = CeilSeconds(total_video_duration)
    /\ pc' = "prepare_background"
    /\ UNCHANGED <<persistent, failure, db_at_start, my_config, storymode, thread,
                   story_vars, comm_vars, title_mp3, total_video_duration,
                   mfv_vars>>
    /\ UNCHANGED san_vars

---------------------------------------------------------------------------
(* main(): comments mode *)

\* main.py lines 126-130: get_comments returns a list, never None
GetComments ==
    /\ pc = "title"
    /\ ~storymode
    /\ \/ /\ comments' = get_comments(thread)
          /\ pc' = "screenshots"
          /\ UNCHANGED failure
       \/ /\ Fail("comment_fetch")
          /\ UNCHANGED comments
    /\ UNCHANGED <<persistent, db_at_start, my_config, storymode, thread, story_vars,
                   comment_mp3, current_video_duration, idx,
                   comments_audio_path, comments_audio_clean_path,
                   comments_image_path, audio_vars, mfv_vars>>
    /\ UNCHANGED san_vars

\* main.py lines 132-134: the screenshots of the post and of every comment
Screenshots ==
    /\ pc = "screenshots"
    /\ \/ /\ pc' = IF comments = <<>> THEN "title_duration" ELSE "comment_tts"
          /\ UNCHANGED failure
       \/ Fail("screenshot")
    /\ UNCHANGED <<persistent, db_at_start, my_config, storymode, thread, story_vars,
                   comm_vars, audio_vars, mfv_vars>>
    /\ UNCHANGED san_vars

\* main.py lines 136-139: one pass of the loop over the comments
TtsComment ==
    /\ pc = "comment_tts"
    /\ \/ /\ \E d \in Durations : comment_mp3' = Append(comment_mp3, d)
          /\ pc' = IF Len(comment_mp3) + 1 = Len(comments)
                   THEN "title_duration" ELSE "comment_tts"
          /\ UNCHANGED failure
       \/ /\ Fail("tts")
          /\ UNCHANGED comment_mp3
    /\ UNCHANGED <<persistent, db_at_start, my_config, storymode, thread, story_vars,
                   comments, current_video_duration, idx, comments_audio_path,
                   comments_audio_clean_path, comments_image_path, audio_vars,
                   mfv_vars>>
    /\ UNCHANGED san_vars

\* main.py lines 141-154: the target, the title duration and one pause
TitleDuration ==
    /\ pc = "title_duration"
    /\ total_video_duration' = my_config.total_video_duration
    /\ \E t \in get_length(title_mp3) :
         IF t = NoneLength
         THEN /\ Fail("get_length")
              /\ UNCHANGED current_video_duration
         ELSE /\ current_video_duration' = t + my_config.pause
              /\ pc' = IF comments = <<>> THEN "pad" ELSE "accept"
              /\ failure' = AfterReading(t, title_mp3)
    /\ UNCHANGED <<persistent, db_at_start, my_config, storymode, thread, story_vars,
                   comments, comment_mp3, idx, comments_audio_path,
                   comments_audio_clean_path, comments_image_path, title_mp3,
                   clean_mp3, length, mfv_vars>>
    /\ UNCHANGED san_vars

\* an acceptance test that forgets the pause that follows the comment
FitsWithoutPause(current, duration, pause, target) == current + duration <= target
\* main.py line 163
Fits(current, duration, pause, target) == current + duration + pause <= target

\* a loop that stops at the first comment that does not fit
NextIdxBreak(i, fits, n) == IF fits THEN i + 1 ELSE n
\* main.py line 157: the loop goes on to the next comment, accepted or not
NextIdx(i, fits, n) == i + 1

\* main.py lines 157-167: one pass of the acceptance loop
AcceptStep ==
    /\ pc = "accept"
    /\ \E d \in get_length(comment_mp3[idx + 1]) :
         IF d = NoneLength
         THEN /\ Fail("get_length")
              /\ UNCHANGED <<comments_audio_path, comments_audio_clean_path,
                             comments_image_path, current_video_duration, idx>>
         ELSE LET fits == Fits(current_video_duration, d, my_config.pause,
                               total_video_duration)
                  next == NextIdx(idx, fits, Len(comments))
              IN  /\ IF fits
                     THEN /\ comments_audio_path' = Append(comments_audio_path, idx)
                          /\ comments_audio_clean_path' =
                                 Append(comments_audio_clean_path, idx)
                          /\ comments_image_path' = Append(comments_image_path, idx)
                          /\ current_video_duration' =
                                 current_video_duration + d + my_config.pause
                     ELSE UNCHANGED <<comments_audio_path,
                                      comments_audio_clean_path,
                                      comments_image_path,
                                      current_video_duration>>
                  /\ idx' = next
                  /\ pc' = IF next >= Len(comments) THEN "pad" ELSE "accept"
                  /\ failure' = AfterReading(d, comment_mp3[idx + 1])
    /\ UNCHANGED <<persistent, db_at_start, my_config, storymode, thread, story_vars,
                   comments, comment_mp3, audio_vars, mfv_vars>>
    /\ UNCHANGED san_vars

\* the clean copies of the accepted comments, in list order
RECURSIVE PadAll(_, _, _)
PadAll(paths, mp3, pause) ==
    IF paths = <<>> THEN <<>>
    ELSE <<add_pause(mp3[Head(paths) + 1], pause)>> \o PadAll(Tail(paths), mp3, pause)

\* main.py lines 169-188: pad the title and the accepted comments, call the
\* composer with the target rounded up
CommentsCompose ==
    /\ pc = "pad"
    /\ clean_mp3' = <<add_pause(title_mp3, my_config.pause)>>
                      \o PadAll(comments_audio_path, comment_mp3, my_config.pause)
    /\ length' = CeilSeconds(total_video_duration)
    /\ pc' = "prepare_background"
    /\ UNCHANGED <<persistent, failure, db_at_start, my_config, storymode, thread,
                   story_vars, comm_vars, title_mp3, total_video_duration,
                   mfv_vars>>
    /\ UNCHANGED san_vars

---------------------------------------------------------------------------
(* make_final_video() and prepare_background() *)

\* the arguments main passes: the body list in story mode, the clean comment
\* list and the image list in comments mode, None otherwise
ArgBodyAudioPaths == IF storymode THEN body_audio_paths ELSE <<>>
ArgCommentsAudioPath == IF storymode THEN <<>> ELSE comments_audio_clean_path
ArgCommentsImagePaths == IF storymode THEN <<>> ELSE comments_image_path

\* an upper limit rounded up instead of truncated
RandintUpperCeil(D, L) == CeilInt(D - L * Scale)
\* videomaker.py line 42: int(video_duration - length)
RandintUpper(D, L) == TruncInt(D - L * Scale)

\* videomaker.py lines 78-93 and 37-44: make_final_video loads the
\* configuration again and reads the mode from it, then prepares the
\* background: random.randint(0, upper) raises ValueError for upper < 0 and
\* returns any start in 0..upper otherwise; subclip takes the start as it is
PrepareBackground ==
    /\ pc = "prepare_background"
    /\ mfv_storymode' = config.storymode
    /\ \E D \in Assets :
         IF RandintUpper(D, length) < 0
         THEN /\ bg' = [video_duration |-> D, length |-> length,
                        random_start |-> -1, raised |-> TRUE]
              /\ Fail("background")
         ELSE /\ \E s \in 0..RandintUpper(D, length) :
                    bg' = [video_duration |-> D, length |-> length,
                           random_start |-> s, raised |-> FALSE]
              /\ pc' = "gather_audio"
              /\ UNCHANGED failure
    /\ UNCHANGED <<persistent, db_at_start, my_config, storymode, thread,
                   story_vars, comm_vars, audio_vars, audio_clips, segments_log,
                   all_captions, total_duration, final_video, text_concat,
                   image_clips>>
    /\ UNCHANGED san_vars

\* the durations of the files behind a list of body paths
BodyDurations(paths) == [k \in 1..Len(paths) |-> body_mp3[paths[k] + 1]]
\* the durations of the clean files behind the accepted comments
CleanDurations(paths) == [k \in 1..Len(paths) |-> clean_mp3[k + 1]]

\* videomaker.py lines 95-104: on the mode read at line 81,
\* the title clip first, then the body or the comment clips
GatherAudio ==
    /\ pc = "gather_audio"
    /\ bg' = NoBg
    /\ IF mfv_storymode /\ ArgBodyAudioPaths # <<>>
       THEN /\ audio_clips' = <<clean_mp3[1]>> \o BodyDurations(ArgBodyAudioPaths)
            /\ pc' = "transcribe"
       ELSE IF ~mfv_storymode /\ ArgCommentsAudioPath # <<>>
       THEN /\ audio_clips' = <<clean_mp3[1]>> \o CleanDurations(ArgCommentsAudioPath)
            /\ pc' = IF ArgCommentsImagePaths # <<>> THEN "image_clips" ELSE "export"
       ELSE /\ audio_clips' = <<clean_mp3[1]>>
            /\ pc' = "export"
    /\ UNCHANGED <<persistent, failure, db_at_start, my_config, storymode, thread,
                   story_vars, comm_vars, audio_vars, segments_log,
                   all_captions, total_duration, final_video, mfv_storymode,
                   text_concat, image_clips>>
    /\ UNCHANGED san_vars

\* the captions of one transcript moved by an offset
Shift(captions, offset) ==
    [k \in 1..Len(captions) |->
        [start |-> captions[k].start + offset,
         end   |-> captions[k].end + offset,
         text  |-> captions[k].text]]

\* an index that starts at the title clip
BodyClipDurationFromTitle(clips, i) == clips[i]
\* videomaker.py lines 110 and 115: audio_clips[i].duration with i counted
\* from 1, the title being audio_clips[0]
BodyClipDuration(clips, i) == clips[i + 1]

\* videomaker.py lines 110-115: one pass of the transcription loop
TranscribeSegment ==
    /\ pc = "transcribe"
    /\ \/ \E tr \in Transcripts :
            LET i == Len(segments_log) + 1
            IN  /\ segments_log' = Append(segments_log, tr)
                /\ all_captions' = all_captions
                       \o Shift(format_captions_whisper(tr), total_duration)
                /\ total_duration' =
                       total_duration + BodyClipDuration(audio_clips, i)
                /\ pc' = IF i = Len(ArgBodyAudioPaths)
                         THEN "story_clips" ELSE "transcribe"
                /\ UNCHANGED failure
       \/ /\ Fail("transcription")
          /\ UNCHANGED <<segments_log, all_captions, total_duration>>
    /\ UNCHANGED <<persistent, db_at_start, my_config, storymode, thread, story_vars,
                   comm_vars, audio_vars, bg, audio_clips, final_video,
                   mfv_storymode, text_concat, image_clips>>
    /\ UNCHANGED san_vars

\* videomaker.py lines 125-138: one text clip per caption, given the
\* caption's start and lasting from its start to its end
TextClips(captions) ==
    [k \in 1..Len(captions) |->
        [start    |-> captions[k].start,
         duration |-> captions[k].end - captions[k].start,
         text     |-> captions[k].text]]

\* videomaker.py lines 140-143: concatenate_videoclips plays the clips one
\* after another, each for its own duration, whatever start it was given;
\* set_start then puts the first of them at the given time
RECURSIVE Concatenate(_, _)
Concatenate(clips, at) ==
    IF clips = <<>> THEN <<>>
    ELSE <<[start    |-> at,
            duration |-> Head(clips).duration,
            text     |-> Head(clips).text]>>
           \o Concatenate(Tail(clips), at + Head(clips).duration)

\* videomaker.py lines 117-143: the title clip, one text clip per caption,
\* their concatenation (which raises on an empty list) and the composite
StoryClips ==
    /\ pc = "story_clips"
    /\ IF all_captions = <<>>
       THEN /\ Fail("composition")
            /\ UNCHANGED <<final_video, text_concat>>
       ELSE /\ final_video' = "story"
            /\ text_concat' = Concatenate(TextClips(all_captions), audio_clips[1])
            /\ pc' = "export"
            /\ UNCHANGED failure
    /\ UNCHANGED <<persistent, db_at_start, my_config, storymode, thread,
                   story_vars, comm_vars, audio_vars, bg, audio_clips,
                   segments_log, all_captions, total_duration, mfv_storymode,
                   image_clips>>
    /\ UNCHANGED san_vars

\* the title card among the images of image_clips
TitleImage == 0 - 1

\* a clip that takes the duration of the audio clip before its own
ImageClipDurationOffByOne(clips, i) == clips[i + 1]
\* videomaker.py line 163: audio_clips[idx + 1].duration, idx counted from 0
ImageClipDuration(clips, i) == clips[i + 2]

\* videomaker.py lines 145-171: the title card for the duration of the
\* title audio, then one image per comment image path
ImageClips ==
    /\ pc = "image_clips"
    /\ final_video' = "comments"
    /\ image_clips' =
          <<[image |-> TitleImage, duration |-> audio_clips[1]]>>
            \o [k \in 1..Len(ArgCommentsImagePaths) |->
                  [image    |-> ArgCommentsImagePaths[k],
                   duration |-> ImageClipDuration(audio_clips, k - 1)]]
    /\ pc' = "export"
    /\ UNCHANGED <<persistent, failure, db_at_start, my_config, storymode,
                   thread, story_vars, comm_vars, audio_vars, bg, audio_clips,
                   segments_log, all_captions, total_duration, mfv_storymode,
                   text_concat>>
    /\ UNCHANGED san_vars

\* videomaker.py lines 173-192: set_audio on a final_video no branch has
\* bound raises UnboundLocalError; otherwise the video file is written
Export ==
    /\ pc = "export"
    /\ IF final_video = "unbound"
       THEN /\ Fail("unbound_final_video")
            /\ UNCHANGED results
       ELSE /\ results' = results \cup {thread.id}
            /\ pc' = "returned"
            /\ UNCHANGED failure
    /\ UNCHANGED <<config, db, temp_dirs, db_at_start, my_config, storymode, thread,
                   story_vars, comm_vars, audio_vars, mfv_vars>>
    /\ UNCHANGED san_vars

---------------------------------------------------------------------------
(* main(): the end of a run *)

\* main.py lines 190-193
RecordSeen ==
    /\ pc = "returned"
    /\ db' = Append(db, thread.id)
    /\ pc' = "recorded"
    /\ UNCHANGED <<config, temp_dirs, results, failure, db_at_start, my_config, storymode,
                   thread, story_vars, comm_vars, audio_vars, mfv_vars>>
    /\ UNCHANGED san_vars

\* main.py line 196: shutil.rmtree("./assets/temp")
RemoveTemp ==
    /\ pc = "recorded"
    /\ temp_dirs' = {}
    /\ pc' = "done"
    /\ UNCHANGED <<config, db, results, failure, db_at_start, my_config, storymode,
                   thread, story_vars, comm_vars, audio_vars, mfv_vars>>
    /\ UNCHANGED san_vars

\* the program is started again: main.py line 200
NewRun ==
    /\ pc \in Terminal
    /\ pc' = "start"
    /\ db_at_start' = db
    /\ failure' = "none"
    /\ my_config' = NoConfig
    /\ storymode' = FALSE
    /\ thread' = NoThread
    /\ title_mp3' = 0
    /\ chunks' = <<>>
    /\ body_audio_paths' = <<>>
    /\ body_mp3' = <<>>
    /\ comments' = <<>>
    /\ comment_mp3' = <<>>
    /\ total_video_duration' = 0
    /\ current_video_duration' = 0
    /\ idx' = 0
    /\ comments_audio_path' = <<>>
    /\ comments_audio_clean_path' = <<>>
    /\ comments_image_path' = <<>>
    /\ clean_mp3' = <<>>
    /\ length' = -1
    /\ bg' = NoBg
    /\ audio_clips' = <<>>
    /\ segments_log' = <<>>
    /\ all_captions' = <<>>
    /\ total_duration' = 0
    /\ final_video' = "unbound"
    /\ mfv_storymode' = FALSE
    /\ text_concat' = <<>>
    /\ image_clips' = <<>>
    /\ UNCHANGED persistent
    /\ UNCHANGED san_vars

\* The storymode key of ./assets/config.toml is edited while the program
\* runs or between runs. The file is read at main.py line 28 and at
\* videomaker.py line 80 only, so an edit at any moment is the same as one
\* just before the next of these reads.
EditConfig ==
    /\ pc \in Terminal \cup {"prepare_background"}
    /\ config' = [config EXCEPT !.storymode = ~@]
    /\ UNCHANGED <<db, temp_dirs, results, run_ctl, story_vars, comm_vars,
                   audio_vars, mfv_vars>>
    /\ UNCHANGED san_vars

Next ==
    \/ EditConfig
    \/ GetThread
    \/ TitleTts
    \/ StoryBranch
    \/ TtsBodyChunk
    \/ StoryDurations
    \/ StoryCompose
    \/ GetComments
    \/ Screenshots
    \/ TtsComment
    \/ TitleDuration
    \/ AcceptStep
    \/ CommentsCompose
    \/ PrepareBackground
    \/ GatherAudio
    \/ TranscribeSegment
    \/ StoryClips
    \/ ImageClips
    \/ Export
    \/ RecordSeen
    \/ RemoveTemp
    \/ NewRun

Spec == Init /\ [][Next]_vars

---------------------------------------------------------------------------
(* sanitize_text on its own: applied to a text, and again to its result *)

SanInit ==
    /\ config = NoConfig
    /\ db = <<>>
    /\ temp_dirs = {}
    /\ results = {}
    /\ pc = "start"
    /\ db_at_start = <<>>
    /\ FreshLocals
    /\ san_text \in Inputs
    /\ san_results = <<>>

\* sanitize_text(x)
Sanitize ==
    /\ san_results = <<>>
    /\ san_results' = <<sanitize_text(san_text)>>
    /\ UNCHANGED <<main_vars, san_text>>

\* sanitize_text(sanitize_text(x)), for a first result without markup
SanitizeAgain ==
    /\ Len(san_results) = 1
    /\ ~Markup(san_results[1])
    /\ san_results' = Append(san_results, sanitize_text(san_results[1]))
    /\ UNCHANGED <<main_vars, san_text>>

SanNext ==
    \/ Sanitize
    \/ SanitizeAgain

SanSpec == SanInit /\ [][SanNext]_vars

TypeOK ==
    /\ config \in Configs
    /\ pc \in {"start", "thread", "title", "body_tts", "story_durations",
               "story_compose", "screenshots", "comment_tts", "title_duration",
               "accept", "pad", "prepare_background", "gather_audio",
               "transcribe", "story_clips", "image_clips", "export",
               "returned", "recorded"} \cup Terminal
    /\ temp_dirs \subseteq {Pool[k].id : k \in 1..Len(Pool)}
    /\ results \subseteq {Pool[k].id : k \in 1..Len(Pool)}

---------------------------------------------------------------------------
(* Properties *)

NoDuplicates(d) == \A i, j \in 1..Len(d) : d[i] = d[j] => i = j

\* C1: thread dedup. The thread a run selects is never one whose id the
\* seen store held when the run started, so over any sequence of runs no
\* id is recorded twice.
C1_ThreadDedup ==
    /\ thread # NoThread => ~InDb(db_at_start, thread.id)
    /\ NoDuplicates(db)

\* a later run has selected a thread while the store already holds ids
C1_Witness ==
    /\ pc = "thread"
    /\ Len(db_at_start) >= 2
    /\ thread # NoThread

\* the accepted comments as a set of loop indices
Accepted == { comments_audio_path[k] : k \in 1..Len(comments_audio_path) }

\* the running total when the loop reaches comment i: the title, one pause,
\* and every comment accepted before i with its pause
RECURSIVE TotalBefore(_)
TotalBefore(i) ==
    IF i = 0 THEN title_mp3 + my_config.pause
    ELSE TotalBefore(i - 1)
           + (IF (i - 1) \in Accepted THEN comment_mp3[i] + my_config.pause ELSE 0)

\* C2 as stated: the acceptance pass stops at the first comment that does
\* not fit, so the accepted comments are a contiguous prefix of the list.
C2_AcceptedIsPrefix ==
    pc = "pad" =>
        \A k \in 1..Len(comments_audio_path) : comments_audio_path[k] = k - 1

\* C2 amended: the pass tests every comment in order. The accepted comments
\* are, in their original order, exactly those that fit on top of the title
\* and the comments accepted before them; a comment that does not fit is
\* dropped alone, and later comments that fit are still accepted.
C2_AcceptedInOrder ==
    pc = "pad" =>
        /\ \A k \in 1..Len(comments_audio_path) - 1 :
              comments_audio_path[k] < comments_audio_path[k + 1]
        /\ Accepted \subseteq 0..(Len(comments) - 1)
        /\ \A i \in 0..(Len(comments) - 1) :
              i \in Accepted <=>
                 TotalBefore(i) + comment_mp3[i + 1] + my_config.pause
                    <= my_config.total_video_duration

\* a finished pass that dropped a comment and accepted a later one
C2_Witness ==
    /\ pc = "pad"
    /\ \E i, j \in 0..(Len(comments) - 1) :
          i < j /\ i \notin Accepted /\ j \in Accepted

\* the running total after the k-th acceptance, the title counted once
RECURSIVE TotalAfter(_)
TotalAfter(k) ==
    IF k = 0 THEN title_mp3 + my_config.pause
    ELSE TotalAfter(k - 1) + comment_mp3[comments_audio_path[k] + 1] + my_config.pause

\* C3: during the acceptance pass the running total is the title duration,
\* one pause, and duration plus pause of every accepted comment; the total
\* after every acceptance is at or under the target, which is the test the
\* comment passed when it was accepted.
C3_RunningTotalWithinTarget ==
    pc \in {"accept", "pad"} =>
        /\ current_video_duration = TotalAfter(Len(comments_audio_path))
        /\ \A k \in 1..Len(comments_audio_path) :
              TotalAfter(k) <= my_config.total_video_duration

\* the pass is under way and has accepted two comments, the second exactly
\* reaching the target
C3_Witness ==
    /\ pc = "accept"
    /\ Len(comments_audio_path) = 2
    /\ current_video_duration = my_config.total_video_duration
    /\ my_config.pause > 0

\* the story-mode call of the composer has just been made
StoryCall == pc = "prepare_background" /\ storymode

\* n is the whole number of seconds x units round up to
IsCeilOf(n, x) == n * Scale >= x /\ (n - 1) * Scale < x

\* C4 as stated: the length is title + chunks + (n+1) pauses, rounded up.
C4_LengthWithPausePerChunk ==
    StoryCall =>
        IsCeilOf(length, title_mp3 + SumSeq(body_mp3)
                           + (Len(body_mp3) + 1) * my_config.pause)

\* C4 amended: in story mode with n body chunks the length handed to the
\* composer is title duration + the n chunk durations + one pause (the one
\* after the title), rounded up to the nearest whole second.
C4_LengthWithOnePause ==
    StoryCall =>
        IsCeilOf(length, title_mp3 + SumSeq(body_mp3) + my_config.pause)

\* a story call with two chunks, a pause, and a total that is rounded up
C4_Witness ==
    /\ StoryCall
    /\ Len(body_mp3) = 2
    /\ my_config.pause > 0
    /\ length * Scale > total_video_duration

\* C5: whenever the asset is shorter than the target length, by however
\* little, prepare_background raises instead of choosing a start.
C5_ShortAssetRaises ==
    (bg # NoBg /\ bg.video_duration < bg.length * Scale) => bg.raised

\* C6: with an asset at least as long as the target length, every start
\* prepare_background chooses has 0 <= s and s + L <= D.
C6_StartWithinAsset ==
    (bg # NoBg /\ bg.video_duration >= bg.length * Scale) =>
        /\ ~bg.raised
        /\ 0 <= bg.random_start
        /\ (bg.random_start + bg.length) * Scale <= bg.video_duration

\* a start other than 0 has been chosen, the latest one the asset allows
C6_Witness ==
    /\ bg # NoBg
    /\ bg.random_start > 0
    /\ (bg.random_start + bg.length) * Scale = bg.video_duration

\* the number of fragments in the first k transcripts
RECURSIVE FragmentsBefore(_)
FragmentsBefore(k) ==
    IF k = 0 THEN 0 ELSE FragmentsBefore(k - 1) + Len(segments_log[k])

\* the audio duration of the first k body segments
RECURSIVE BodyAudioBefore(_)
BodyAudioBefore(k) ==
    IF k = 0 THEN 0 ELSE BodyAudioBefore(k - 1) + body_mp3[k]

\* C7: the absolute caption list holds every fragment of every transcribed
\* body segment, in segment order and fragment order, one caption per
\* fragment, and fragment f of segment k has its start and end moved by the
\* sum of the audio durations of body segments 1..k-1.
C7_CaptionsShiftedByPriorAudio ==
    pc \in {"transcribe", "story_clips"} =>
        /\ Len(all_captions) = FragmentsBefore(Len(segments_log))
        /\ \A k \in 1..Len(segments_log) :
              \A f \in 1..Len(segments_log[k]) :
                 LET c == all_captions[FragmentsBefore(k - 1) + f]
                     g == segments_log[k][f]
                 IN  /\ c.start = g.start + BodyAudioBefore(k - 1)
                     /\ c.end = g.end + BodyAudioBefore(k - 1)
                     /\ c.text = Strip(g.text)

\* both body segments are transcribed, each into two fragments, and the
\* first segment's audio is not as long as the title's clean copy
C7_Witness ==
    /\ pc = "story_clips"
    /\ Len(segments_log) = 2
    /\ Len(segments_log[1]) = 2
    /\ Len(segments_log[2]) = 2
    /\ body_mp3[1] # clean_mp3[1]

\* the stages that call an external service
ExternalServices ==
    {"thread_fetch", "comment_fetch", "tts", "screenshot", "transcription"}

\* C8: a failed external service call ends the run at once and leaves the
\* seen store as the run found it; a run that does not skip its thread
\* records it only after the video export has returned.
C8_FailureLeavesThreadUnseen ==
    /\ failure \in ExternalServices => pc = "crashed" /\ db = db_at_start
    /\ (db # db_at_start /\ pc # "exit_skipped") =>
          /\ pc \in {"recorded", "done"}
          /\ thread.id \in results
          /\ failure = "none"

\* a transcription failed inside the composer, in a run after others
C8_Witness ==
    /\ failure = "transcription"
    /\ pc = "crashed"
    /\ db_at_start # <<>>
    /\ db = db_at_start

\* the run is in story mode and past the body-length branch
PastStoryBranch ==
    storymode /\ title_mp3 > 0 /\ pc # "title"

\* C9: a story-mode run whose sanitized body is shorter than the minimum
\* records the thread as seen and ends there: the composer is never called
\* and no video file is written for the thread.
C9_ShortBodySkipped ==
    (PastStoryBranch /\ TextLen(thread.body) < MinBodyLength) =>
        /\ pc = "exit_skipped"
        /\ InDb(db, thread.id)
        /\ thread.id \notin results
        /\ length = -1
        /\ final_video = "unbound"
        /\ failure = "none"

\* a run has skipped a thread for its short body
C9_Witness ==
    /\ pc = "exit_skipped"
    /\ TextLen(thread.body) < MinBodyLength
    /\ InDb(db, thread.id)

\* C10: a run that ends after recording its thread in the seen store has
\* removed every ./assets/temp/<thread id> directory by then.
C10_TempReleasedOnRecord ==
    (pc \in Terminal /\ db # db_at_start) => temp_dirs = {}

\* the composer has been called by a comments-mode run with no accepted
\* comment
EmptyCommentsCall ==
    /\ ~storymode
    /\ ~mfv_storymode
    /\ length # -1
    /\ comments_audio_clean_path = <<>>

\* C11: in comments mode with an empty accepted set make_final_video does
\* not crash on its missing visual track; it completes with a title-only
\* composite.
C11_EmptyCommentsCompose ==
    EmptyCommentsCall => failure # "unbound_final_video"

\* the run has got past the selection of thread and comments
PastCommentSelection ==
    /\ ~storymode
    /\ title_mp3 > 0
    /\ pc # "title"
    /\ failure # "comment_fetch"

\* C12: a run that finds no unseen thread, or whose comment selection
\* yields no qualifying comment, ends there: it performs no later stage
\* and adds no id to the seen store.
C12_SelectionFailureAborts ==
    /\ (pc # "start" /\ thread = NoThread /\ failure = "none") =>
          pc = "exit_no_thread" /\ db = db_at_start
    /\ (PastCommentSelection /\ get_comments(thread) = <<>>) =>
          pc \in Terminal \ {"crashed"} /\ db = db_at_start

\* C13: a get_length that cannot read a file ends the run in a failure
\* before any video is exported and before the thread is recorded; the
\* missing duration enters no running total and no acceptance decision.
C13_UnreadableAudioAborts ==
    failure = "get_length" =>
        /\ pc = "crashed"
        /\ db = db_at_start
        /\ thread.id \notin results
        /\ length = -1
        /\ storymode => total_video_duration = 0
        /\ ~storymode =>
              current_video_duration \in {0, TotalAfter(Len(comments_audio_path))}

\* a comment's file could not be read in the middle of the acceptance pass
C13_Witness ==
    /\ failure = "get_length"
    /\ pc = "crashed"
    /\ comments_audio_path # <<>>
    /\ idx < Len(comments)


\* make_final_video has read the mode: videomaker.py line 81
ComposerHasReadMode ==
    /\ length # -1
    /\ pc # "prepare_background"

\* C14: the content mode is fixed for the whole run: the mode on which
\* make_final_video branches is the mode on which main branched, also when
\* the configuration file is modified between the two reads.
C14_ModeFixedForRun ==
    ComposerHasReadMode => mfv_storymode = storymode


\* the offsets at which a word of the text starts
WordStarts(words) == { WordStart(words, i) : i \in 1..Len(words) }

\* C15: split_text returns chunks of at most max_length characters whose
\* boundaries never fall inside a word: each chunk starts at the start of a
\* word and ends at the end of a word, also for a text with a word longer
\* than max_length.
C15_ChunksOnWordBoundaries ==
    \A k \in 1..Len(chunks) :
        /\ chunks[k].end - chunks[k].start <= max_length
        /\ chunks[k].start \in WordStarts(thread.body)
        /\ chunks[k].end \in WordEnds(thread.body)


\* C16: sanitize_text is idempotent: sanitize_text(sanitize_text(x)) is
\* sanitize_text(x) for every text x, also one with an emoji, '/', '+', '&'
\* or an age and gender tag.
C16_SanitizeIdempotent ==
    Len(san_results) = 2 => san_results[2] = san_results[1]

\* C17: sanitize_text strips all URLs: for a text that contains a URL of
\* the form https://a.b/c the result contains neither http nor https.
C17_UrlsStripped ==
    (san_results # <<>> /\ Contains(san_text, Url)) =>
        ~Contains(san_results[1], <<"h", "t", "t", "p">>)


\* the candidates that the store at the start of the run does not hold
UnseenCandidates ==
    { k \in 1..Len(Pool) : ~InDb(db_at_start, Pool[k].id) }

\* C18: get_thread returns the unseen candidate with the highest score,
\* and returns no thread exactly when every candidate id is in the seen
\* store.
C18_BestUnseenThread ==
    (pc # "start" /\ failure # "thread_fetch") =>
        /\ thread = NoThread <=> UnseenCandidates = {}
        /\ thread # NoThread =>
              /\ \E k \in UnseenCandidates : Pool[k] = thread
              /\ \A k \in UnseenCandidates : Pool[k].score <= thread.score

\* with the two better candidates seen, a run has got the last one
C18_Witness ==
    /\ pc = "thread"
    /\ Len(db_at_start) = 2
    /\ thread.id = "c"

\* every candidate is seen and the run has got no thread
C18_NoThreadLeft ==
    /\ pc = "exit_no_thread"
    /\ UnseenCandidates = {}


\* C19: throughout the acceptance pass the three accepted lists have equal
\* length and their i-th entries refer to the same comment; in the composite
\* the visual track is the title card followed by one image per accepted
\* comment, and the k-th image clip lasts as long as the narration audio
\* segment of that same comment.
C19_TracksAligned ==
    /\ comments_audio_path = comments_audio_clean_path
    /\ comments_audio_clean_path = comments_image_path
    /\ image_clips # <<>> =>
          /\ Len(image_clips) = Len(comments_image_path) + 1
          /\ image_clips[1] =
                [image |-> TitleImage,
                 duration |-> add_pause(title_mp3, my_config.pause)]
          /\ \A k \in 1..Len(comments_image_path) :
                /\ image_clips[k + 1].image = comments_image_path[k]
                /\ image_clips[k + 1].duration =
                      add_pause(comment_mp3[comments_audio_clean_path[k] + 1],
                                my_config.pause)

\* the image clips of two accepted comments of different durations, a
\* comment between them having been passed over
C19_Witness ==
    /\ pc = "export"
    /\ Len(image_clips) = 3
    /\ comments_image_path = <<0, 2>>
    /\ image_clips[2].duration # image_clips[3].duration
    /\ image_clips[1].duration # image_clips[2].duration


\* C20: in the rendered composite every caption appears at the title clip's
\* duration plus its absolute start on the caption track and lasts from its
\* start to its end, also for transcriptions whose fragments do not start at
\* 0 or have silent gaps between them.
C20_CaptionsAtTimelinePosition ==
    \A k \in 1..Len(text_concat) :
        /\ text_concat[k].start = audio_clips[1] + all_captions[k].start
        /\ text_concat[k].duration = all_captions[k].end - all_captions[k].start


\* the narration main hands to make_final_video: the clean title, then the
\* body files in story mode, the clean comment files in comments mode
NarrationDuration ==
    IF storymode THEN clean_mp3[1] + SumSeq(body_mp3) ELSE SumSeq(clean_mp3)

\* C21: in either mode the length passed to make_final_video is at least
\* the total duration of the concatenated narration audio, for every title
\* duration, pause and target, also for a title whose duration plus pause
\* exceeds the comments-mode target.
C21_LengthCoversNarration ==
    length # -1 => length * Scale >= NarrationDuration

\* the story-mode half of C21 on its own
C21_StoryLengthCoversNarration ==
    (length # -1 /\ storymode) => length * Scale >= NarrationDuration

====
